---- MODULE Spec2Model ----
(***************************************************************************)
(* NatTable (route-rs-runtime/src/state/nat_table.rs): a BiHashMap of      *)
(* LookupTupleIpv4 values behind one std::sync::RwLock, used by several    *)
(* threads.  The BiHashMap is modelled as the bimap crate implements it:   *)
(* two hash maps, left2right and right2left, that every mutation updates   *)
(* one after the other.  Each NatTable method is: take the lock, run the   *)
(* map operation step by step, drop the guard on return.                   *)
(***************************************************************************)
EXTENDS Integers, FiniteSets

NumTuples == 2
NumThreads == 2

\* LookupTupleIpv4 values; both sides of the map have this one type.
Tuples == 1 .. NumTuples
Threads == 1 .. NumThreads

\* Option::None of a hash-map lookup.
None == 0

VARIABLES
    table,        \* the BiHashMap: [left2right, right2left]
    lockWriter,   \* RwLock: the thread holding the write guard, 0 if none
    lockReaders,  \* RwLock: the threads holding a read guard
    poisoned,     \* RwLock: a thread panicked while it held the write guard
    pc,           \* per thread: where it is inside a NatTable method
    op,           \* per thread: the method it runs and its arguments
    ret,          \* per thread: the value the method is about to return
    committed     \* history: the map as it was when the write lock was last free

vars == <<table, lockWriter, lockReaders, poisoned, pc, op, ret, committed>>

EmptyMap == [left2right |-> [x \in Tuples |-> None],
             right2left |-> [x \in Tuples |-> None]]

NoOp == [kind |-> "none", internal |-> None, external |-> None]

Call(k, i, e) == [kind |-> k, internal |-> i, external |-> e]

\* Return values, one shape for all methods.
NoRet == [tag |-> "none", val |-> 0]
Ok == [tag |-> "Ok", val |-> 0]
Err == [tag |-> "Err", val |-> 0]
Unit == [tag |-> "unit", val |-> 0]
Some(x) == [tag |-> "Some", val |-> x]
NoneRet == [tag |-> "None", val |-> 0]
Bool(b) == [tag |-> IF b THEN "true" ELSE "false", val |-> 0]
Usize(n) == [tag |-> "usize", val |-> n]

\* Mutant: a lookup that finds nothing reports an error.
OptionErrOnAbsent(x) == IF x = None THEN Err ELSE Some(x)

\* match ... { Some(tuple) => Some(tuple.clone()), None => None }
Option(x) == IF x = None THEN NoneRet ELSE Some(x)

WriteKinds == {"insert", "insert_overwrite", "clear"}
ReadKinds == {"get_internal", "get_external", "contains_internal",
              "contains_external", "len", "is_empty"}

\* Program points at which a writer is inside its map operation.
WriteSteps == {"insert_no_overwrite", "remove_by_left", "remove_by_right",
               "insert_unchecked_l2r", "insert_unchecked_r2l",
               "clear_l2r", "clear_r2l"}

----
\* BiHashMap queries (bimap): each reads one of the two hash maps.

GetByLeft(m, l) == m.left2right[l]

GetByRight(m, r) == m.right2left[r]

ContainsLeft(m, l) == m.left2right[l] # None

ContainsRight(m, r) == m.right2left[r] # None

BiLen(m) == Cardinality({l \in Tuples : m.left2right[l] # None})

BiIsEmpty(m) == BiLen(m) = 0

----
\* NatTable queries: what each read method returns on a map m.

GetInternal(m, external) == Option(GetByRight(m, external))

GetExternal(m, internal) == Option(GetByLeft(m, internal))

ContainsInternal(m, internal) == Bool(ContainsLeft(m, internal))

ContainsExternal(m, external) == Bool(ContainsRight(m, external))

NatLen(m) == Usize(BiLen(m))

IsEmpty(m) == Bool(BiIsEmpty(m))

----
\* std::sync::RwLock

\* Mutant: a write lock that ignores readers holding the lock.
RwWriteIgnoresReaders(t) ==
    /\ ~poisoned
    /\ lockWriter = 0
    /\ lockWriter' = t
    /\ UNCHANGED <<lockReaders, poisoned>>

\* Mutant: a write lock that does not exclude another writer.
RwWriteIgnoresWriter(t) ==
    /\ ~poisoned
    /\ lockReaders = {}
    /\ lockWriter' = t
    /\ UNCHANGED <<lockReaders, poisoned>>

\* self.table.write().unwrap(): exclusive; the guard is returned only while
\* the lock is not poisoned.
RwWrite(t) ==
    /\ ~poisoned
    /\ lockWriter = 0
    /\ lockReaders = {}
    /\ lockWriter' = t
    /\ UNCHANGED <<lockReaders, poisoned>>

\* Mutant: a read lock that ignores a writer holding the lock.
RwReadIgnoresWriter(t) ==
    /\ ~poisoned
    /\ lockReaders' = lockReaders \cup {t}
    /\ UNCHANGED <<lockWriter, poisoned>>

\* Mutant: the reader takes the guard out of the PoisonError and goes on.
RwReadIgnoresPoison(t) ==
    /\ lockWriter = 0
    /\ lockReaders' = lockReaders \cup {t}
    /\ UNCHANGED <<lockWriter, poisoned>>

\* self.table.read().unwrap(): shared among readers, excluded by a writer;
\* the guard is returned only while the lock is not poisoned.
RwRead(t) ==
    /\ ~poisoned
    /\ lockWriter = 0
    /\ lockReaders' = lockReaders \cup {t}
    /\ UNCHANGED <<lockWriter, poisoned>>

----
Init ==
    /\ table = EmptyMap
    /\ lockWriter = 0
    /\ lockReaders = {}
    /\ poisoned = FALSE
    /\ pc = [t \in Threads |-> "idle"]
    /\ op = [t \in Threads |-> NoOp]
    /\ ret = [t \in Threads |-> NoRet]
    /\ committed = EmptyMap

\* A writer enters method k with arguments (i, e) and continues at `first`.
EnterWrite(t, k, i, e, first) ==
    /\ pc[t] = "idle"
    /\ RwWrite(t)
    /\ op' = [op EXCEPT ![t] = Call(k, i, e)]
    /\ pc' = [pc EXCEPT ![t] = first]
    /\ UNCHANGED <<table, ret, committed>>

\* A reader enters method k with arguments (i, e), reads r and is about to
\* return it; its guard lives until the return.
EnterRead(t, k, i, e, r) ==
    /\ pc[t] = "idle"
    /\ RwRead(t)
    /\ op' = [op EXCEPT ![t] = Call(k, i, e)]
    /\ ret' = [ret EXCEPT ![t] = r]
    /\ pc' = [pc EXCEPT ![t] = "drop"]
    /\ UNCHANGED <<table, committed>>

\* Mutant: NatTable::insert calls the overwriting BiHashMap::insert.
insert_calls_overwriting_insert(t) ==
    \E i \in Tuples, e \in Tuples :
        EnterWrite(t, "insert", i, e, "remove_by_left")

\* NatTable::insert: take the write lock; insert_no_overwrite follows.
insert(t) ==
    \E i \in Tuples, e \in Tuples :
        EnterWrite(t, "insert", i, e, "insert_no_overwrite")

\* NatTable::insert_overwrite: take the write lock; BiHashMap::insert starts
\* with remove_by_left.
insert_overwrite(t) ==
    \E i \in Tuples, e \in Tuples :
        EnterWrite(t, "insert_overwrite", i, e, "remove_by_left")

\* NatTable::clear: take the write lock.
clear(t) == EnterWrite(t, "clear", None, None, "clear_l2r")

\* Mutant: the collision test looks at the left side only.
insert_no_overwrite_left_only(t) ==
    /\ pc[t] = "insert_no_overwrite"
    /\ IF ContainsLeft(table, op[t].internal)
       THEN /\ ret' = [ret EXCEPT ![t] = Err]
            /\ pc' = [pc EXCEPT ![t] = "drop"]
       ELSE /\ pc' = [pc EXCEPT ![t] = "insert_unchecked_l2r"]
            /\ UNCHANGED ret
    /\ UNCHANGED <<table, lockWriter, lockReaders, poisoned, op, committed>>

\* Mutant: the collision test also rejects a value used on the opposite side.
insert_no_overwrite_either_side(t) ==
    /\ pc[t] = "insert_no_overwrite"
    /\ IF \/ ContainsLeft(table, op[t].internal)
          \/ ContainsRight(table, op[t].external)
          \/ ContainsRight(table, op[t].internal)
          \/ ContainsLeft(table, op[t].external)
       THEN /\ ret' = [ret EXCEPT ![t] = Err]
            /\ pc' = [pc EXCEPT ![t] = "drop"]
       ELSE /\ pc' = [pc EXCEPT ![t] = "insert_unchecked_l2r"]
            /\ UNCHANGED ret
    /\ UNCHANGED <<table, lockWriter, lockReaders, poisoned, op, committed>>

\* BiHashMap::insert_no_overwrite: Err if the left value is a left key or the
\* right value is a right key, and then NatTable::insert returns Err(());
\* otherwise insert_unchecked.
insert_no_overwrite(t) ==
    /\ pc[t] = "insert_no_overwrite"
    /\ IF ContainsLeft(table, op[t].internal) \/ ContainsRight(table, op[t].external)
       THEN /\ ret' = [ret EXCEPT ![t] = Err]
            /\ pc' = [pc EXCEPT ![t] = "drop"]
       ELSE /\ pc' = [pc EXCEPT ![t] = "insert_unchecked_l2r"]
            /\ UNCHANGED ret
    /\ UNCHANGED <<table, lockWriter, lockReaders, poisoned, op, committed>>

\* Mutant: the pair of the left value is taken out of left2right only.
remove_by_left_keeps_right(t) ==
    /\ pc[t] = "remove_by_left"
    /\ table' = [table EXCEPT !.left2right[op[t].internal] = None]
    /\ pc' = [pc EXCEPT ![t] = "remove_by_right"]
    /\ UNCHANGED <<lockWriter, lockReaders, poisoned, op, ret, committed>>

\* Mutant: having removed the pair of the left value, BiHashMap::insert
\* returns at once when that pair was the very pair to insert.
remove_by_left_returns_on_same_pair(t) ==
    /\ pc[t] = "remove_by_left"
    /\ LET l == op[t].internal
           r == table.left2right[l]
       IN /\ table' = IF r = None
                      THEN table
                      ELSE [table EXCEPT !.left2right[l] = None,
                                         !.right2left[r] = None]
          /\ IF r = op[t].external
             THEN /\ pc' = [pc EXCEPT ![t] = "drop"]
                  /\ ret' = [ret EXCEPT ![t] = Unit]
             ELSE /\ pc' = [pc EXCEPT ![t] = "remove_by_right"]
                  /\ UNCHANGED ret
    /\ UNCHANGED <<lockWriter, lockReaders, poisoned, op, committed>>

\* Mutant: the left value is also looked up among the right values, and the
\* pair found there is removed too.
remove_by_left_either_side(t) ==
    /\ pc[t] = "remove_by_left"
    /\ LET l == op[t].internal
           r == table.left2right[l]
           z == table.right2left[l]
           m1 == IF r = None
                 THEN table
                 ELSE [table EXCEPT !.left2right[l] = None,
                                    !.right2left[r] = None]
       IN table' = IF z = None \/ m1.left2right[z] = None
                   THEN m1
                   ELSE [m1 EXCEPT !.left2right[z] = None,
                                   !.right2left[l] = None]
    /\ pc' = [pc EXCEPT ![t] = "remove_by_right"]
    /\ UNCHANGED <<lockWriter, lockReaders, poisoned, op, ret, committed>>

\* BiHashMap::remove_by_left: take the pair of the left value, if any, out of
\* both maps.
remove_by_left(t) ==
    /\ pc[t] = "remove_by_left"
    /\ LET l == op[t].internal
           r == table.left2right[l]
       IN table' = IF r = None
                   THEN table
                   ELSE [table EXCEPT !.left2right[l] = None,
                                      !.right2left[r] = None]
    /\ pc' = [pc EXCEPT ![t] = "remove_by_right"]
    /\ UNCHANGED <<lockWriter, lockReaders, poisoned, op, ret, committed>>

\* Mutant: BiHashMap::insert does not remove the pair of the right value.
remove_by_right_skipped(t) ==
    /\ pc[t] = "remove_by_right"
    /\ pc' = [pc EXCEPT ![t] = "insert_unchecked_l2r"]
    /\ UNCHANGED <<table, lockWriter, lockReaders, poisoned, op, ret, committed>>

\* BiHashMap::remove_by_right: take the pair of the right value, if any, out
\* of both maps.
remove_by_right(t) ==
    /\ pc[t] = "remove_by_right"
    /\ LET r == op[t].external
           l == table.right2left[r]
       IN table' = IF l = None
                   THEN table
                   ELSE [table EXCEPT !.right2left[r] = None,
                                      !.left2right[l] = None]
    /\ pc' = [pc EXCEPT ![t] = "insert_unchecked_l2r"]
    /\ UNCHANGED <<lockWriter, lockReaders, poisoned, op, ret, committed>>

\* BiHashMap::insert_unchecked, first half: left2right.insert(left, right).
insert_unchecked_l2r(t) ==
    /\ pc[t] = "insert_unchecked_l2r"
    /\ table' = [table EXCEPT !.left2right[op[t].internal] = op[t].external]
    /\ pc' = [pc EXCEPT ![t] = "insert_unchecked_r2l"]
    /\ UNCHANGED <<lockWriter, lockReaders, poisoned, op, ret, committed>>

\* Mutant: the second half of insert_unchecked is lost.
insert_unchecked_r2l_lost(t) ==
    /\ pc[t] = "insert_unchecked_r2l"
    /\ ret' = [ret EXCEPT ![t] = IF op[t].kind = "insert" THEN Ok ELSE Unit]
    /\ pc' = [pc EXCEPT ![t] = "drop"]
    /\ UNCHANGED <<table, lockWriter, lockReaders, poisoned, op, committed>>

\* BiHashMap::insert_unchecked, second half: right2left.insert(right, left).
\* NatTable::insert then returns Ok(()), NatTable::insert_overwrite nothing.
insert_unchecked_r2l(t) ==
    /\ pc[t] = "insert_unchecked_r2l"
    /\ table' = [table EXCEPT !.right2left[op[t].external] = op[t].internal]
    /\ ret' = [ret EXCEPT ![t] = IF op[t].kind = "insert" THEN Ok ELSE Unit]
    /\ pc' = [pc EXCEPT ![t] = "drop"]
    /\ UNCHANGED <<lockWriter, lockReaders, poisoned, op, committed>>

\* BiHashMap::clear, first half: left2right.clear().
clear_l2r(t) ==
    /\ pc[t] = "clear_l2r"
    /\ table' = [table EXCEPT !.left2right = EmptyMap.left2right]
    /\ pc' = [pc EXCEPT ![t] = "clear_r2l"]
    /\ UNCHANGED <<lockWriter, lockReaders, poisoned, op, ret, committed>>

\* Mutant: the second half of clear is lost.
clear_r2l_lost(t) ==
    /\ pc[t] = "clear_r2l"
    /\ ret' = [ret EXCEPT ![t] = Unit]
    /\ pc' = [pc EXCEPT ![t] = "drop"]
    /\ UNCHANGED <<table, lockWriter, lockReaders, poisoned, op, committed>>

\* BiHashMap::clear, second half: right2left.clear().
clear_r2l(t) ==
    /\ pc[t] = "clear_r2l"
    /\ table' = [table EXCEPT !.right2left = EmptyMap.right2left]
    /\ ret' = [ret EXCEPT ![t] = Unit]
    /\ pc' = [pc EXCEPT ![t] = "drop"]
    /\ UNCHANGED <<lockWriter, lockReaders, poisoned, op, committed>>

\* NatTable::get_internal
get_internal(t) ==
    \E e \in Tuples :
        EnterRead(t, "get_internal", None, e, GetInternal(table, e))

\* NatTable::get_external
get_external(t) ==
    \E i \in Tuples :
        EnterRead(t, "get_external", i, None, GetExternal(table, i))

\* NatTable::contains_internal
contains_internal(t) ==
    \E i \in Tuples :
        EnterRead(t, "contains_internal", i, None, ContainsInternal(table, i))

\* NatTable::contains_external
contains_external(t) ==
    \E e \in Tuples :
        EnterRead(t, "contains_external", None, e, ContainsExternal(table, e))

\* NatTable::len
len(t) == EnterRead(t, "len", None, None, NatLen(table))

\* NatTable::is_empty
is_empty(t) == EnterRead(t, "is_empty", None, None, IsEmpty(table))

\* Mutant: the writer's guard is leaked, the lock stays taken.
drop_leaks_write_guard(t) ==
    /\ pc[t] = "drop"
    /\ IF lockWriter = t
       THEN UNCHANGED <<lockWriter, lockReaders, committed>>
       ELSE /\ lockReaders' = lockReaders \ {t}
            /\ UNCHANGED <<lockWriter, committed>>
    /\ pc' = [pc EXCEPT ![t] = "idle"]
    /\ op' = [op EXCEPT ![t] = NoOp]
    /\ ret' = [ret EXCEPT ![t] = NoRet]
    /\ UNCHANGED <<table, poisoned>>

\* The method returns: its guard goes out of scope and the lock is released.
drop(t) ==
    /\ pc[t] = "drop"
    /\ IF lockWriter = t
       THEN /\ lockWriter' = 0
            /\ committed' = table
            /\ UNCHANGED lockReaders
       ELSE /\ lockReaders' = lockReaders \ {t}
            /\ UNCHANGED <<lockWriter, committed>>
    /\ pc' = [pc EXCEPT ![t] = "idle"]
    /\ op' = [op EXCEPT ![t] = NoOp]
    /\ ret' = [ret EXCEPT ![t] = NoRet]
    /\ UNCHANGED <<table, poisoned>>

Next ==
    \E t \in Threads :
        \/ insert(t)
        \/ insert_no_overwrite(t)
        \/ insert_overwrite(t)
        \/ remove_by_left(t)
        \/ remove_by_right(t)
        \/ insert_unchecked_l2r(t)
        \/ insert_unchecked_r2l(t)
        \/ clear(t)
        \/ clear_l2r(t)
        \/ clear_r2l(t)
        \/ get_internal(t)
        \/ get_external(t)
        \/ contains_internal(t)
        \/ contains_external(t)
        \/ len(t)
        \/ is_empty(t)
        \/ drop(t)

Spec == Init /\ [][Next]_vars

----
\* Poisoning.  A thread that panics while it holds the write guard unwinds:
\* the guard is dropped, which releases the lock and marks it poisoned, and
\* the thread is gone.  The map stays as the panic found it.
panic(t) ==
    /\ lockWriter = t
    /\ lockWriter' = 0
    /\ poisoned' = TRUE
    /\ committed' = table
    /\ pc' = [pc EXCEPT ![t] = "panicked"]
    /\ op' = [op EXCEPT ![t] = NoOp]
    /\ ret' = [ret EXCEPT ![t] = NoRet]
    /\ UNCHANGED <<table, lockReaders>>

\* Any method on a poisoned lock: read() or write() returns Err(PoisonError)
\* and unwrap() panics before the map is touched.
unwrap(t) ==
    /\ pc[t] = "idle"
    /\ poisoned
    /\ lockWriter = 0
    /\ pc' = [pc EXCEPT ![t] = "panicked"]
    /\ UNCHANGED <<table, lockWriter, lockReaders, poisoned, op, ret, committed>>

PoisonNext ==
    \/ Next
    \/ \E t \in Threads :
        \/ panic(t)
        \/ unwrap(t)

PoisonSpec == Init /\ [][PoisonNext]_vars

----
\* Racing inserts.  Each thread calls NatTable::insert once; the call is
\* pending until write() hands over the guard, and the caller keeps the
\* Result.

\* The call of insert(i, e): the thread is about to ask for the write lock.
call_insert(t) ==
    /\ pc[t] = "idle"
    /\ \E i \in Tuples, e \in Tuples :
        op' = [op EXCEPT ![t] = Call("insert", i, e)]
    /\ pc' = [pc EXCEPT ![t] = "call"]
    /\ UNCHANGED <<table, lockWriter, lockReaders, poisoned, ret, committed>>

\* self.table.write().unwrap() of the pending insert returns the guard.
lock_insert(t) ==
    /\ pc[t] = "call"
    /\ RwWrite(t)
    /\ pc' = [pc EXCEPT ![t] = "insert_no_overwrite"]
    /\ UNCHANGED <<table, op, ret, committed>>

\* insert returns: the guard is dropped, the caller has the Result.
return_insert(t) ==
    /\ pc[t] = "drop"
    /\ lockWriter' = 0
    /\ committed' = table
    /\ pc' = [pc EXCEPT ![t] = "done"]
    /\ UNCHANGED <<table, lockReaders, poisoned, op, ret>>

RaceNext ==
    \E t \in Threads :
        \/ call_insert(t)
        \/ lock_insert(t)
        \/ insert_no_overwrite(t)
        \/ insert_unchecked_l2r(t)
        \/ insert_unchecked_r2l(t)
        \/ return_insert(t)

RaceSpec == Init /\ [][RaceNext]_vars

----
\* Vocabulary of the properties.

\* Thread t is about to return from method k: ret[t] is its result and
\* table is the map it leaves behind.  For a writer, committed is the map it
\* found.
AtReturn(t, k) == pc[t] = "drop" /\ op[t].kind = k

HoldsWrite(t) ==
    pc[t] \in WriteSteps \/ (pc[t] = "drop" /\ op[t].kind \in WriteKinds)

HoldsRead(t) == pc[t] = "drop" /\ op[t].kind \in ReadKinds

\* The pair (a, b) is in map m.
HasPair(m, a, b) == GetExternal(m, a) = Some(b) /\ GetInternal(m, b) = Some(a)

\* Every query answers the same on m1 and m2.
SameQueries(m1, m2) ==
    /\ NatLen(m1) = NatLen(m2)
    /\ IsEmpty(m1) = IsEmpty(m2)
    /\ \A x \in Tuples :
        /\ GetInternal(m1, x) = GetInternal(m2, x)
        /\ GetExternal(m1, x) = GetExternal(m2, x)
        /\ ContainsInternal(m1, x) = ContainsInternal(m2, x)
        /\ ContainsExternal(m1, x) = ContainsExternal(m2, x)

\* What read call o returns on map m.
ReadResult(o, m) ==
    CASE o.kind = "get_internal" -> GetInternal(m, o.external)
      [] o.kind = "get_external" -> GetExternal(m, o.internal)
      [] o.kind = "contains_internal" -> ContainsInternal(m, o.internal)
      [] o.kind = "contains_external" -> ContainsExternal(m, o.external)
      [] o.kind = "len" -> NatLen(m)
      [] o.kind = "is_empty" -> IsEmpty(m)

----
\* C1: whenever no writer is in the middle of its map operation,
\* getExternal(A) = Some(B) if and only if getInternal(B) = Some(A); so no
\* internal value has two external partners and no external value has two
\* internal partners.
C1_Bijection ==
    (\A t \in Threads : pc[t] \notin WriteSteps) =>
        \A a \in Tuples, b \in Tuples :
            GetExternal(table, a) = Some(b) <=> GetInternal(table, b) = Some(a)

\* Two pairs are in the table and the lock is free.
C1_Witness ==
    /\ lockWriter = 0
    /\ \E a \in Tuples, b \in Tuples, c \in Tuples, d \in Tuples :
        a # c /\ b # d /\ HasPair(table, a, b) /\ HasPair(table, c, d)

\* C2: with (A,B) in the table, insert(A,B), insert(A,X) and insert(Y,B)
\* return Err and leave len and every lookup as they were.
C2_InsertRejectsCollisions ==
    \A t \in Threads :
        AtReturn(t, "insert") =>
            \A a \in Tuples, b \in Tuples :
                (HasPair(committed, a, b)
                    /\ (op[t].internal = a \/ op[t].external = b)) =>
                        ret[t] = Err /\ SameQueries(table, committed)

\* insert(A,X) with X # B is refused while (A,B) is in the table.
C2_Witness ==
    \E t \in Threads, a \in Tuples, b \in Tuples :
        /\ AtReturn(t, "insert")
        /\ HasPair(committed, a, b)
        /\ op[t].internal = a
        /\ op[t].external # b
        /\ ret[t] = Err

\* A value takes part in a mapping of m on one side or the other.
Participates(m, x) == ContainsLeft(m, x) \/ ContainsRight(m, x)

\* C3 as claimed: insert(X,Y) returns Err and changes nothing whenever X or Y
\* takes part in a mapping on either side.
C3_InsertRejectsEitherSide ==
    \A t \in Threads :
        (AtReturn(t, "insert")
            /\ (Participates(committed, op[t].internal)
                \/ Participates(committed, op[t].external))) =>
                    ret[t] = Err /\ SameQueries(table, committed)

\* C3 as the code has it: insert(X,Y) returns Err exactly when X is already
\* an internal value or Y is already an external value, and then changes
\* nothing; a value used only on the opposite side is no collision, and the
\* pair is added.
C3_InsertRejectsSameSide ==
    \A t \in Threads :
        AtReturn(t, "insert") =>
            /\ ret[t] = Err <=>
                (ContainsLeft(committed, op[t].internal)
                    \/ ContainsRight(committed, op[t].external))
            /\ ret[t] = Err => SameQueries(table, committed)
            /\ ret[t] # Err =>
                ret[t] = Ok /\ HasPair(table, op[t].internal, op[t].external)

\* With (A,B) in the table, insert(B,Z) has succeeded.
C3_Witness ==
    \E t \in Threads, a \in Tuples :
        /\ AtReturn(t, "insert")
        /\ HasPair(committed, a, op[t].internal)
        /\ ret[t] = Ok

\* C4: insert(A,B) on a table with neither A as internal nor B as external
\* value returns Ok, and then getExternal(A) = Some(B), getInternal(B) =
\* Some(A), containsInternal(A) and containsExternal(B).
C4_RoundTrip ==
    \A t \in Threads :
        (AtReturn(t, "insert")
            /\ ~ContainsLeft(committed, op[t].internal)
            /\ ~ContainsRight(committed, op[t].external)) =>
                /\ ret[t] = Ok
                /\ GetExternal(table, op[t].internal) = Some(op[t].external)
                /\ GetInternal(table, op[t].external) = Some(op[t].internal)
                /\ ContainsInternal(table, op[t].internal) = Bool(TRUE)
                /\ ContainsExternal(table, op[t].external) = Bool(TRUE)

\* An insert into a non-empty table has succeeded.
C4_Witness ==
    \E t \in Threads :
        /\ AtReturn(t, "insert")
        /\ ret[t] = Ok
        /\ ~BiIsEmpty(committed)
        /\ BiLen(table) = BiLen(committed) + 1

\* C5: with (A,B) in the table and C # B, insertOverwrite(A,C) leaves
\* getExternal(A) = Some(C), getInternal(C) = Some(A), getInternal(B) = None;
\* insertOverwrite never reports a failure.
C5_OverwriteDisplaces ==
    \A t \in Threads :
        AtReturn(t, "insert_overwrite") =>
            /\ ret[t] = Unit
            /\ \A b \in Tuples :
                (HasPair(committed, op[t].internal, b) /\ b # op[t].external) =>
                    /\ GetExternal(table, op[t].internal) = Some(op[t].external)
                    /\ GetInternal(table, op[t].external) = Some(op[t].internal)
                    /\ GetInternal(table, b) = NoneRet

\* insertOverwrite(A,C) has run on a table with (A,B), B # C.
C5_Witness ==
    \E t \in Threads, b \in Tuples :
        /\ AtReturn(t, "insert_overwrite")
        /\ HasPair(committed, op[t].internal, b)
        /\ b # op[t].external
        /\ ~ContainsRight(committed, op[t].external)

\* C6: with (A,B) and (C,D) in the table, A # C and B # D,
\* insertOverwrite(A,D) leaves getExternal(C) = None, getInternal(B) = None,
\* getExternal(A) = Some(D), and len one less than before.
C6_OverwriteEvictsTwo ==
    \A t \in Threads :
        AtReturn(t, "insert_overwrite") =>
            \A b \in Tuples, c \in Tuples :
                (/\ HasPair(committed, op[t].internal, b)
                 /\ HasPair(committed, c, op[t].external)
                 /\ c # op[t].internal
                 /\ b # op[t].external) =>
                    /\ GetExternal(table, c) = NoneRet
                    /\ GetInternal(table, b) = NoneRet
                    /\ GetExternal(table, op[t].internal) = Some(op[t].external)
                    /\ BiLen(table) = BiLen(committed) - 1

\* insertOverwrite(A,D) has run on a table with (A,B) and (C,D).
C6_Witness ==
    \E t \in Threads, b \in Tuples, c \in Tuples :
        /\ AtReturn(t, "insert_overwrite")
        /\ HasPair(committed, op[t].internal, b)
        /\ HasPair(committed, c, op[t].external)
        /\ c # op[t].internal
        /\ b # op[t].external

\* C7: insertOverwrite(A,B) with (A,B) already in the table leaves len and
\* every lookup as they were.
C7_OverwriteIdempotent ==
    \A t \in Threads :
        (AtReturn(t, "insert_overwrite")
            /\ HasPair(committed, op[t].internal, op[t].external)) =>
                /\ SameQueries(table, committed)
                /\ GetInternal(table, op[t].external) = Some(op[t].internal)

\* insertOverwrite of the only pair of the table has run.
C7_Witness ==
    \E t \in Threads :
        /\ AtReturn(t, "insert_overwrite")
        /\ HasPair(committed, op[t].internal, op[t].external)
        /\ BiLen(committed) = 1

\* C8: when clear() returns, isEmpty() is true, len() is 0 and every lookup
\* and existence check reports absence.
C8_ClearEmpties ==
    \A t \in Threads :
        AtReturn(t, "clear") =>
            /\ IsEmpty(table) = Bool(TRUE)
            /\ NatLen(table) = Usize(0)
            /\ \A x \in Tuples :
                /\ GetInternal(table, x) = NoneRet
                /\ GetExternal(table, x) = NoneRet
                /\ ContainsInternal(table, x) = Bool(FALSE)
                /\ ContainsExternal(table, x) = Bool(FALSE)

\* clear() has run on a table that held two pairs.
C8_Witness ==
    \E t \in Threads :
        /\ AtReturn(t, "clear")
        /\ BiLen(committed) >= 2

\* C9: a thread inside a write operation is alone inside the lock: no other
\* thread holds the lock as a writer or as a reader.
C9_LockExclusion ==
    \A t \in Threads :
        HoldsWrite(t) =>
            /\ lockWriter = t
            /\ lockReaders = {}
            /\ \A u \in Threads \ {t} : ~HoldsWrite(u) /\ ~HoldsRead(u)

\* Two readers hold the lock at once.
C9_Witness ==
    \E t \in Threads, u \in Threads :
        /\ t # u
        /\ HoldsRead(t) /\ HoldsRead(u)
        /\ {t, u} \subseteq lockReaders

\* The two directions of m agree.
Consistent(m) ==
    \A a \in Tuples, b \in Tuples :
        (m.left2right[a] = b) <=> (m.right2left[b] = a)

\* C10: a reader holding the lock sees a complete table, the one the last
\* finished write left behind: no write is halfway, the two directions
\* agree, and the value it returns is its query's answer on that table.
C10_ReadersSeeCommitted ==
    \A t \in Threads :
        HoldsRead(t) =>
            /\ table = committed
            /\ Consistent(table)
            /\ \A u \in Threads : pc[u] \notin WriteSteps
            /\ ret[t] = ReadResult(op[t], committed)

\* A reader has found a pair while another thread stands outside the lock.
C10_Witness ==
    \E t \in Threads, u \in Threads :
        /\ HoldsRead(t)
        /\ ret[t].tag = "Some"
        /\ pc[u] = "idle"
        /\ ~ENABLED insert_overwrite(u)

\* C13: a pair (A,B) of the table goes away only in a step of clear() or of
\* an insertOverwrite whose internal argument is A or whose external argument
\* is B; reads, inserts (failed or not) and every other insertOverwrite keep
\* getExternal(A) = Some(B) and getInternal(B) = Some(A).
C13_EntriesPersist ==
    [][\A a \in Tuples, b \in Tuples :
        (HasPair(table, a, b) /\ ~HasPair(table', a, b)) =>
            \E t \in Threads :
                /\ lockWriter = t
                /\ \/ op[t].kind = "clear"
                   \/ /\ op[t].kind = "insert_overwrite"
                      /\ (op[t].internal = a \/ op[t].external = b)]_vars

\* A pair has outlived an insertOverwrite of another pair that shares
\* neither its internal nor its external value.
C13_Witness ==
    \E t \in Threads, a \in Tuples, b \in Tuples :
        /\ AtReturn(t, "insert_overwrite")
        /\ op[t].internal # a
        /\ op[t].external # b
        /\ HasPair(committed, a, b)
        /\ HasPair(table, a, b)
        /\ table # committed

\* Results a read method can produce.
ReadTags == {"Some", "None", "true", "false", "usize"}

\* C14: a read method leaves the map as it is, when it starts and when it
\* returns; its result is a value, never an error, and a lookup of a value
\* that is not there is None.
C14_ReadsHaveNoEffect ==
    [][\A t \in Threads :
        /\ (pc[t] = "idle" /\ pc'[t] = "drop") =>
            /\ op'[t].kind \in ReadKinds
            /\ table' = table
            /\ ret'[t].tag \in ReadTags
            /\ (op'[t].kind = "get_internal"
                    /\ ~ContainsRight(table, op'[t].external)) =>
                        ret'[t] = NoneRet
            /\ (op'[t].kind = "get_external"
                    /\ ~ContainsLeft(table, op'[t].internal)) =>
                        ret'[t] = NoneRet
        /\ (HoldsRead(t) /\ pc'[t] = "idle") => table' = table]_vars

\* A lookup of a value that is not in a non-empty table has returned None.
C14_Witness ==
    \E t \in Threads :
        /\ AtReturn(t, "get_internal")
        /\ ret[t] = NoneRet
        /\ ~BiIsEmpty(table)

\* C16: when insert returns Ok, len is one more than before and every pair
\* that was in the table is still there; when it returns Err, len is as
\* before.
C16_InsertNeverEvicts ==
    \A t \in Threads :
        AtReturn(t, "insert") =>
            /\ ret[t] = Ok =>
                /\ BiLen(table) = BiLen(committed) + 1
                /\ \A a \in Tuples, b \in Tuples :
                    HasPair(committed, a, b) => HasPair(table, a, b)
            /\ ret[t] = Err => BiLen(table) = BiLen(committed)
            /\ ret[t] \in {Ok, Err}

\* An insert into a table that holds a pair has returned Ok.
C16_Witness ==
    \E t \in Threads, a \in Tuples, b \in Tuples :
        /\ AtReturn(t, "insert")
        /\ ret[t] = Ok
        /\ HasPair(committed, a, b)
        /\ HasPair(table, a, b)

\* C17: insertOverwrite(I,E) leaves exactly (I,E) and the pairs of the old
\* table whose internal value is not I and whose external value is not E; a
\* pair that has E as internal or I as external value stays; len changes by
\* +1, 0 or -1.
C17_OverwriteEvictsOnlyCollisions ==
    \A t \in Threads :
        AtReturn(t, "insert_overwrite") =>
            /\ \A a \in Tuples, b \in Tuples :
                HasPair(table, a, b) <=>
                    \/ (a = op[t].internal /\ b = op[t].external)
                    \/ /\ HasPair(committed, a, b)
                       /\ a # op[t].internal
                       /\ b # op[t].external
            /\ BiLen(table) - BiLen(committed) \in {-1, 0, 1}

\* insertOverwrite(I,E) has run on a table with the pair (E,I), which uses
\* both values on the opposite sides, and has kept it.
C17_Witness ==
    \E t \in Threads :
        /\ AtReturn(t, "insert_overwrite")
        /\ op[t].internal # op[t].external
        /\ HasPair(committed, op[t].external, op[t].internal)
        /\ HasPair(table, op[t].external, op[t].internal)
        /\ BiLen(table) = BiLen(committed) + 1

\* The pairs, the internal values and the external values of m.
Pairs(m) == {p \in Tuples \X Tuples : HasPair(m, p[1], p[2])}

Internals(m) == {x \in Tuples : m.left2right[x] # None}

Externals(m) == {y \in Tuples : m.right2left[y] # None}

\* C18: whenever no writer is in the middle of its map operation, len() is
\* the number of pairs, of internal values and of external values; isEmpty()
\* is true iff len() is 0; containsInternal(x) iff getExternal(x) is not None
\* and containsExternal(y) iff getInternal(y) is not None.  new() gives an
\* empty table.
C18_QueryConsistency ==
    /\ (\A t \in Threads : pc[t] \notin WriteSteps) =>
        /\ NatLen(table) = Usize(Cardinality(Pairs(table)))
        /\ NatLen(table) = Usize(Cardinality(Internals(table)))
        /\ NatLen(table) = Usize(Cardinality(Externals(table)))
        /\ IsEmpty(table) = Bool(TRUE) <=> NatLen(table) = Usize(0)
        /\ \A x \in Tuples :
            /\ ContainsInternal(table, x) = Bool(TRUE)
                <=> GetExternal(table, x) # NoneRet
            /\ ContainsExternal(table, x) = Bool(TRUE)
                <=> GetInternal(table, x) # NoneRet
    /\ IsEmpty(EmptyMap) = Bool(TRUE)

\* The table holds as many pairs as there are values.
C18_Witness ==
    /\ lockWriter = 0
    /\ BiLen(table) = NumTuples
    /\ Cardinality(Externals(table)) = NumTuples

\* C12: once the lock is poisoned it stays poisoned, the map is never
\* changed again, and no method returns a result: a thread that calls one
\* panics, so every thread is outside the lock or gone.
C12_PoisonIsFatal ==
    [][poisoned =>
        /\ poisoned'
        /\ table' = table
        /\ \A t \in Threads :
            /\ pc[t] \in {"idle", "panicked"}
            /\ pc'[t] \in {"idle", "panicked"}
            /\ ret'[t] = NoRet
            /\ pc'[t] # pc[t] => pc'[t] = "panicked"]_vars

\* A writer has panicked between the two halves of an update, and another
\* thread has called a method since and panicked too.
C12_Witness ==
    /\ poisoned
    /\ ~Consistent(table)
    /\ \E t \in Threads, u \in Threads :
        t # u /\ pc[t] = "panicked" /\ pc[u] = "panicked"

\* Two insert calls collide: same internal value or same external value.
Collide(o1, o2) == o1.internal = o2.internal \/ o1.external = o2.external

\* The orders in which the threads' calls can be put one after the other.
Orders == {f \in [Threads -> Threads] : \A t \in Threads : \E k \in Threads : f[k] = t}

\* insert(o.internal, o.external) run alone on map m: the result and the map
\* it leaves.
SeqInsert(m, o) ==
    IF ContainsLeft(m, o.internal) \/ ContainsRight(m, o.external)
    THEN [ret |-> Err, map |-> m]
    ELSE [ret |-> Ok,
          map |-> [m EXCEPT !.left2right[o.internal] = o.external,
                            !.right2left[o.external] = o.internal]]

\* Running the calls alone, in order f from the k-th on and starting with map
\* m, gives every thread the result it got and ends with the table.
RECURSIVE SeqRun(_, _, _)
SeqRun(m, f, k) ==
    IF k > NumThreads
    THEN m = table
    ELSE LET s == SeqInsert(m, op[f[k]])
         IN ret[f[k]] = s.ret /\ SeqRun(s.map, f, k + 1)

AllDone == \A t \in Threads : pc[t] = "done"

\* C11: when all threads have called insert on the empty table and all have
\* returned, results and table are those of the calls run one after the
\* other in some order; if the calls collide with each other, exactly one
\* returned Ok, the others Err, and the table holds the winner's pair and
\* nothing else.
C11_InsertRaceIsAtomic ==
    AllDone =>
        /\ \E f \in Orders : SeqRun(EmptyMap, f, 1)
        /\ (\A t \in Threads, u \in Threads : Collide(op[t], op[u])) =>
            \E w \in Threads :
                /\ ret[w] = Ok
                /\ \A u \in Threads \ {w} : ret[u] = Err
                /\ Pairs(table) = {<<op[w].internal, op[w].external>>}
                /\ BiLen(table) = 1

\* All threads have returned from colliding inserts of different pairs.
C11_Witness ==
    /\ AllDone
    /\ \A t \in Threads, u \in Threads :
        t # u => (Collide(op[t], op[u]) /\ op[t] # op[u])
    /\ \E t \in Threads : ret[t] = Err

----
\* Waiting for the lock.  A thread that has called a method and finds the
\* lock taken blocks inside read() or write() until the lock lets it in.

FairThreads == 1 .. NumThreads + 1

WriteCalls ==
    {Call(k, i, e) : k \in {"insert", "insert_overwrite"}, i \in Tuples, e \in Tuples}
        \cup {Call("clear", None, None)}

ReadCalls ==
    {Call(k, None, e) : k \in {"get_internal", "contains_external"}, e \in Tuples}
        \cup {Call(k, i, None) : k \in {"get_external", "contains_internal"}, i \in Tuples}
        \cup {Call(k, None, None) : k \in {"len", "is_empty"}}

\* Where a write method starts its map operation.
FirstStep(k) ==
    CASE k = "insert" -> "insert_no_overwrite"
      [] k = "insert_overwrite" -> "remove_by_left"
      [] k = "clear" -> "clear_l2r"

FairInit ==
    /\ table = EmptyMap
    /\ lockWriter = 0
    /\ lockReaders = {}
    /\ poisoned = FALSE
    /\ pc = [t \in FairThreads |-> "idle"]
    /\ op = [t \in FairThreads |-> NoOp]
    /\ ret = [t \in FairThreads |-> NoRet]
    /\ committed = EmptyMap

\* A read method is called: the thread enters self.table.read().
want_read(t) ==
    /\ pc[t] = "idle"
    /\ pc' = [pc EXCEPT ![t] = "wait_read"]
    /\ UNCHANGED <<table, lockWriter, lockReaders, poisoned, op, ret, committed>>

\* A write method is called: the thread enters self.table.write().
want_write(t) ==
    /\ pc[t] = "idle"
    /\ pc' = [pc EXCEPT ![t] = "wait_write"]
    /\ UNCHANGED <<table, lockWriter, lockReaders, poisoned, op, ret, committed>>

\* read() returns the guard; the method reads and is about to return.
acquire_read(t) ==
    /\ pc[t] = "wait_read"
    /\ RwRead(t)
    /\ \E o \in ReadCalls :
        /\ op' = [op EXCEPT ![t] = o]
        /\ ret' = [ret EXCEPT ![t] = ReadResult(o, table)]
    /\ pc' = [pc EXCEPT ![t] = "drop"]
    /\ UNCHANGED <<table, committed>>

\* write() returns the guard; the method starts its map operation.
acquire_write(t) ==
    /\ pc[t] = "wait_write"
    /\ RwWrite(t)
    /\ \E o \in WriteCalls :
        /\ op' = [op EXCEPT ![t] = o]
        /\ pc' = [pc EXCEPT ![t] = FirstStep(o.kind)]
    /\ UNCHANGED <<table, ret, committed>>

\* The steps of a thread that holds the lock, up to its return.
InLockStep(t) ==
    \/ insert_no_overwrite(t)
    \/ remove_by_left(t)
    \/ remove_by_right(t)
    \/ insert_unchecked_l2r(t)
    \/ insert_unchecked_r2l(t)
    \/ clear_l2r(t)
    \/ clear_r2l(t)
    \/ drop(t)

FairNext ==
    \E t \in FairThreads :
        \/ want_read(t)
        \/ want_write(t)
        \/ acquire_read(t)
        \/ acquire_write(t)
        \/ InLockStep(t)

\* Threads that hold the lock keep running (weak fairness of their steps);
\* a thread that could get the lock again and again gets it (strong fairness
\* of each acquisition).  The lock promises no order among its waiters.
FairSpec ==
    /\ FairInit
    /\ [][FairNext]_vars
    /\ \A t \in FairThreads :
        /\ WF_vars(InLockStep(t))
        /\ SF_vars(acquire_read(t))
        /\ SF_vars(acquire_write(t))

Waiting(t) == pc[t] \in {"wait_read", "wait_write"}

\* Some thread that has called a method can take a step.
NotAllBlocked ==
    (\E t \in FairThreads : pc[t] # "idle") =>
        \E t \in FairThreads :
            ENABLED (acquire_read(t) \/ acquire_write(t) \/ InLockStep(t))

====
